---------------------------- MODULE Spec2Model ----------------------------
(***************************************************************************)
(* A model of the d3-tip tooltip positioner (src/index.ts).                *)
(*                                                                         *)
(* Numbers.  Every length of the model is a fixed-point number with one    *)
(* binary fractional digit: the integer v stands for v/2 pixels.  The only *)
(* divisions of the code are halvings of whole-pixel quantities            *)
(* (offsetWidth / 2, offsetHeight / 2, width / 2, height / 2), so on the   *)
(* whole-pixel inputs drawn here every value of the code is represented    *)
(* exactly, as it is in the doubles of the program.                        *)
(*                                                                         *)
(* References.  A nullable reference is a sequence: <<>> is null or unset, *)
(* <<v>> holds v.  An absent element is the string NoEl.                   *)
(***************************************************************************)
EXTENDS Integers, Sequences, FiniteSets, TLC

-----------------------------------------------------------------------------
(* Bounds of the model *)

\* indices passed to show are 0..MaxIndex
MaxIndex == 1

-----------------------------------------------------------------------------
(* Numbers and references *)

Px(n) == 2 * n
Half(v) == v \div 2

Null == <<>>
Ref(v) == <<v>>
Deref(r) == r[1]

NoEl == "null"

-----------------------------------------------------------------------------
(* The closed set of directions, src/index.ts:11 and the keys of           *)
(* direction_callbacks, src/index.ts:186-196                               *)

directions == {"n", "s", "e", "w", "nw", "ne", "sw", "se"}

-----------------------------------------------------------------------------
(* The environment: documents, elements, layout *)

\* containers the tooltip node can be mounted into
Roots == {"body", "div1"}

\* SVG elements a caller can hand to show or that an event can target:
\* two shapes (graphics elements) and one element without geometry methods
Shapes == {"rect1", "rect2"}
Elements == Shapes \cup {"defs1"}

Data == {"d1", "d2"}
Index == 0 .. MaxIndex

\* what tip(vis) can be called with: an empty selection, the svg root, an
\* element inside an svg, an element with no owning svg
Selections == {"empty", "svg", "inner", "orphan"}

Matrix(a, b, c, d, e, f) == [a |-> a, b |-> b, c |-> c, d |-> d, e |-> e, f |-> f]
Rect(x, y, width, height) == [x |-> x, y |-> y, width |-> width, height |-> height]
Point(x, y) == [x |-> x, y |-> y]


-----------------------------------------------------------------------------
(* Geometry: DOMPoint.matrixTransform and getScreenBBox                      *)

\* point.matrixTransform(matrix): a NEW point, the receiver is left as it is
matrixTransform(point, matrix) ==
    Point(matrix.a * point.x + matrix.c * point.y + matrix.e,
          matrix.b * point.x + matrix.d * point.y + matrix.f)

\* ScreenPoints with "point.x += x; point.y += y" for its first two lines
ScreenPoints_accumulate(pt, tbbox, matrix) ==
    LET width  == tbbox.width
        height == tbbox.height
        p0 == [pt EXCEPT !.x = @ + tbbox.x, !.y = @ + tbbox.y]
        p1 == [p0 EXCEPT !.x = @ + width]
        p2 == [p1 EXCEPT !.y = @ + height]
        p3 == [p2 EXCEPT !.x = @ - width]
        p4 == [p3 EXCEPT !.y = @ - Half(height)]
        p5 == [p4 EXCEPT !.x = @ + width]
        p6 == [p5 EXCEPT !.x = @ - Half(width), !.y = @ - Half(height)]
        p7 == [p6 EXCEPT !.y = @ + height]
    IN  [bbox |-> [nw |-> matrixTransform(p0, matrix),
                   ne |-> matrixTransform(p1, matrix),
                   se |-> matrixTransform(p2, matrix),
                   sw |-> matrixTransform(p3, matrix),
                   w  |-> matrixTransform(p4, matrix),
                   e  |-> matrixTransform(p5, matrix),
                   n  |-> matrixTransform(p6, matrix),
                   s  |-> matrixTransform(p7, matrix)],
         point |-> p7]

\* The body of getScreenBBox from "point.x = x" on: the one scratch point
\* (pt as the call finds it) is mutated step by step (p0 .. p7 are its
\* successive values) and projected after each step.  Yields the 8 screen
\* points and the scratch point as the call leaves it.
ScreenPoints(pt, tbbox, matrix) ==
    LET width  == tbbox.width
        height == tbbox.height
        p0 == [pt EXCEPT !.x = tbbox.x, !.y = tbbox.y]
        p1 == [p0 EXCEPT !.x = @ + width]
        p2 == [p1 EXCEPT !.y = @ + height]
        p3 == [p2 EXCEPT !.x = @ - width]
        p4 == [p3 EXCEPT !.y = @ - Half(height)]
        p5 == [p4 EXCEPT !.x = @ + width]
        p6 == [p5 EXCEPT !.x = @ - Half(width), !.y = @ - Half(height)]
        p7 == [p6 EXCEPT !.y = @ + height]
    IN  [bbox |-> [nw |-> matrixTransform(p0, matrix),
                   ne |-> matrixTransform(p1, matrix),
                   se |-> matrixTransform(p2, matrix),
                   sw |-> matrixTransform(p3, matrix),
                   w  |-> matrixTransform(p4, matrix),
                   e  |-> matrixTransform(p5, matrix),
                   n  |-> matrixTransform(p6, matrix),
                   s  |-> matrixTransform(p7, matrix)],
         point |-> p7]

\* getScreenBBox asking the ambient event first and the stored target last
getScreenBBox_event(tgt, ev, pt, geo) ==
    LET targetel == IF ev # NoEl THEN ev ELSE tgt
    IN  IF targetel = NoEl
          THEN [err |-> "event", targetel |-> targetel]
        ELSE IF geo[targetel] = Null
          THEN [err |-> "geometry", targetel |-> targetel]
        ELSE IF pt = Null
          THEN [err |-> "point", targetel |-> targetel]
        ELSE LET g == Deref(geo[targetel])
                 r == ScreenPoints(Deref(pt), g.bbox, g.matrix)
             IN  [err |-> "none", targetel |-> targetel,
                  tbbox |-> g.bbox, matrix |-> g.matrix,
                  bbox |-> r.bbox, point |-> Ref(r.point)]

\* getScreenBBox making its scratch point when there is none
getScreenBBox_lazy(tgt, ev, pt, geo) ==
    LET targetel == IF tgt # NoEl THEN tgt ELSE ev
    IN  IF targetel = NoEl
          THEN [err |-> "event", targetel |-> targetel]
        ELSE IF geo[targetel] = Null
          THEN [err |-> "geometry", targetel |-> targetel]
        ELSE LET g == Deref(geo[targetel])
                 r == ScreenPoints(IF pt = Null THEN Point(0, 0) ELSE Deref(pt),
                                   g.bbox, g.matrix)
             IN  [err |-> "none", targetel |-> targetel,
                  tbbox |-> g.bbox, matrix |-> g.matrix,
                  bbox |-> r.bbox, point |-> Ref(r.point)]

\* getScreenBBox.  tgt is the variable target, ev the ambient d3.event's target
\* (NoEl: there is no current event), pt the variable point, geo the layout of
\* the elements.  err names where the call throws:
\*   "event"    d3.event is null and no target is set (line 342)
\*   "geometry" the anchor has no getScreenCTM / getBBox (lines 345-346)
\*   "point"    point is undefined: no mount has succeeded (line 352)
getScreenBBox(tgt, ev, pt, geo) ==
    LET targetel == IF tgt # NoEl THEN tgt ELSE ev
    IN  IF targetel = NoEl
          THEN [err |-> "event", targetel |-> targetel]
        ELSE IF geo[targetel] = Null
          THEN [err |-> "geometry", targetel |-> targetel]
        ELSE IF pt = Null
          THEN [err |-> "point", targetel |-> targetel]
        ELSE LET g == Deref(geo[targetel])
                 r == ScreenPoints(Deref(pt), g.bbox, g.matrix)
             IN  [err |-> "none", targetel |-> targetel,
                  tbbox |-> g.bbox, matrix |-> g.matrix,
                  bbox |-> r.bbox, point |-> Ref(r.point)]

-----------------------------------------------------------------------------
(* The direction table.  Each callback gets the screen bbox, the node's      *)
(* offsetWidth W and offsetHeight H, and the root element's rendered width   *)
(* R; pin is the value written to the left style of the node's last child    *)
(* (Null: not written).                                                      *)

\* direction_n with the deficit of the left branch taken with the wrong sign
direction_n_deficit(bbox, W, H, R) ==
    IF bbox.n.x + Half(W) > R
      THEN LET diff == bbox.n.x + Half(W) - R
           IN  [top  |-> bbox.n.y - H,
                left |-> bbox.n.x - Half(W) - diff,
                pin  |-> Ref(Half(W) + diff)]
    ELSE IF bbox.n.x - Half(W) < 0
      THEN LET diff == bbox.n.x - Half(W)
           IN  [top  |-> bbox.n.y - H,
                left |-> bbox.n.x - Half(W) + diff,
                pin  |-> Ref(Half(W) - diff)]
    ELSE [top  |-> bbox.n.y - H,
          left |-> bbox.n.x - Half(W),
          pin  |-> Null]

\* direction_n with the pin of the right branch moved the wrong way
direction_n_pin(bbox, W, H, R) ==
    IF bbox.n.x + Half(W) > R
      THEN LET diff == bbox.n.x + Half(W) - R
           IN  [top  |-> bbox.n.y - H,
                left |-> bbox.n.x - Half(W) - diff,
                pin  |-> Ref(Half(W) - diff)]
    ELSE IF bbox.n.x - Half(W) < 0
      THEN LET diff == Half(W) - bbox.n.x
           IN  [top  |-> bbox.n.y - H,
                left |-> bbox.n.x - Half(W) + diff,
                pin  |-> Ref(Half(W) - diff)]
    ELSE [top  |-> bbox.n.y - H,
          left |-> bbox.n.x - Half(W),
          pin  |-> Null]

direction_n(bbox, W, H, R) ==
    IF bbox.n.x + Half(W) > R
      THEN LET diff == bbox.n.x + Half(W) - R
           IN  [top  |-> bbox.n.y - H,
                left |-> bbox.n.x - Half(W) - diff,
                pin  |-> Ref(Half(W) + diff)]
    ELSE IF bbox.n.x - Half(W) < 0
      THEN LET diff == Half(W) - bbox.n.x
           IN  [top  |-> bbox.n.y - H,
                left |-> bbox.n.x - Half(W) + diff,
                pin  |-> Ref(Half(W) - diff)]
    ELSE [top  |-> bbox.n.y - H,
          left |-> bbox.n.x - Half(W),
          pin  |-> Null]

direction_s(bbox, W, H, R) ==
    [top |-> bbox.s.y, left |-> bbox.s.x - Half(W), pin |-> Null]

direction_e(bbox, W, H, R) ==
    [top |-> bbox.e.y - Half(H), left |-> bbox.e.x, pin |-> Null]

direction_w(bbox, W, H, R) ==
    [top |-> bbox.w.y - Half(H), left |-> bbox.w.x - W, pin |-> Null]

direction_nw(bbox, W, H, R) ==
    [top |-> bbox.nw.y - H, left |-> bbox.nw.x - W, pin |-> Null]

direction_ne(bbox, W, H, R) ==
    [top |-> bbox.ne.y - H, left |-> bbox.ne.x, pin |-> Null]

direction_sw(bbox, W, H, R) ==
    [top |-> bbox.sw.y, left |-> bbox.sw.x - W, pin |-> Null]

\* direction_se reading the se point for its left coordinate
direction_se_corner(bbox, W, H, R) ==
    [top |-> bbox.se.y, left |-> bbox.se.x, pin |-> Null]

direction_se(bbox, W, H, R) ==
    [top |-> bbox.se.y, left |-> bbox.e.x, pin |-> Null]

\* direction_callbacks.get(dir).apply(this), after its getScreenBBox()
direction_callbacks(dir, bbox, W, H, R) ==
    CASE dir = "n"  -> direction_n(bbox, W, H, R)
      [] dir = "s"  -> direction_s(bbox, W, H, R)
      [] dir = "e"  -> direction_e(bbox, W, H, R)
      [] dir = "w"  -> direction_w(bbox, W, H, R)
      [] dir = "nw" -> direction_nw(bbox, W, H, R)
      [] dir = "ne" -> direction_ne(bbox, W, H, R)
      [] dir = "sw" -> direction_sw(bbox, W, H, R)
      [] dir = "se" -> direction_se(bbox, W, H, R)

-----------------------------------------------------------------------------
(* The configurable functions: direction, offset, html.  A configured       *)
(* function is the default, a constant wrapped by the setter ("() => v"),    *)
(* or a function supplied by the caller.                                     *)

\* JavaScript's zero-based arr[k]
At(arr, k) == arr[k + 1]

d3_tip_direction == "n"
d3_tip_offset == <<0, 0>>
d3_tip_html == " "

\* the functions a caller supplies in this model
callerDirection(data, i) == IF i = 0 THEN "sw" ELSE "e"
callerOffset(data, i) == <<Px(i + 1), Px(4)>>
callerHtml(data, i) == IF data = "d1" THEN "<b>one</b>" ELSE "<i>two</i>"

Default == [kind |-> "default"]
Constant(v) == [kind |-> "constant", v |-> v]
Function == [kind |-> "function"]

\* direction.apply(this, args), offset.apply(this, args), html.apply(this, args)
applyDirection(f, args) ==
    CASE f.kind = "default"  -> d3_tip_direction
      [] f.kind = "constant" -> f.v
      [] f.kind = "function" -> callerDirection(At(args, 0), At(args, 1))

applyOffset(f, args) ==
    CASE f.kind = "default"  -> d3_tip_offset
      [] f.kind = "constant" -> f.v
      [] f.kind = "function" -> callerOffset(At(args, 0), At(args, 1))

applyHtml(f, args) ==
    CASE f.kind = "default"  -> d3_tip_html
      [] f.kind = "constant" -> f.v
      [] f.kind = "function" -> callerHtml(At(args, 0), At(args, 1))

-----------------------------------------------------------------------------
(* The tooltip node *)

CssPx(v) == [value |-> v, unit |-> "px"]

\* document.createElement("div") styled by initNode.  parent is the element
\* it is a child of (NoEl: detached), content the markup before the pin,
\* hasPin whether the last child is the pin indicator, pinLeft that child's
\* left style.
initNode ==
    [parent |-> NoEl,
     content |-> "",
     hasPin |-> FALSE,
     pinLeft |-> Null,
     blurred |-> FALSE,
     classes |-> {},
     style |-> [position |-> "absolute",
                top |-> Ref(CssPx(0)),
                left |-> Null,
                opacity |-> 0,
                pointerEvents |-> "none",
                boxSizing |-> "border-box",
                display |-> "none"]]

VARIABLES
    config,       \* the constructor's argument: [blur, rootElement]
    direction,    \* the configured direction function
    offset,       \* the configured offset function
    html,         \* the configured html function
    node,         \* Null or Ref(the tooltip node)
    rootElement,  \* the mount container
    svg,          \* the svg root of the last successful mount, or NoEl
    point,        \* Null (undefined) or Ref(the scratch SVG point)
    target,       \* the explicit anchor, or NoEl (undefined)
    dom,          \* per container, how many tooltip nodes of this positioner it holds
    env,          \* layout and scroll state of the page
    call          \* the last call of the API, its inputs and outcome

vars == <<config, direction, offset, html, node, rootElement, svg, point,
          target, dom, env, call>>

tipVars == <<config, direction, offset, html, node, rootElement, svg, point,
             target, dom>>

\* remove() that forgets the node without taking it out of its parent
remove_kept(d, n) ==
    [node |-> [n EXCEPT !.parent = NoEl], dom |-> d]

\* d3's selection.remove(): the node leaves its parent, if it has one.
\* Yields the node and the changed dom.
remove(d, n) ==
    [node |-> [n EXCEPT !.parent = NoEl],
     dom |-> IF n.parent = NoEl THEN d ELSE [d EXCEPT ![n.parent] = @ - 1]]

\* parent.appendChild(n): n leaves its former parent and becomes a child of
\* parent.  Yields the node and the changed dom.
appendChild(d, parent, n) ==
    [node |-> [n EXCEPT !.parent = parent],
     dom |-> [remove(d, n).dom EXCEPT ![parent] = @ + 1]]

\* getNodeEl making the node anew without appending it
getNodeEl_detached ==
    IF node = Null
      THEN [node |-> initNode, dom |-> dom]
      ELSE [node |-> Deref(node), dom |-> dom]

\* getNodeEl: the node, made anew and appended to rootElement when null.
\* Yields the node and the changed dom.
getNodeEl ==
    IF node = Null
      THEN appendChild(dom, rootElement, initNode)
      ELSE [node |-> Deref(node), dom |-> dom]

-----------------------------------------------------------------------------
(* The pages the positioner runs in *)

Identity == Matrix(1, 0, 0, 1, 0, 0)
Translate(e, f) == Matrix(1, 0, 0, 1, e, f)

\* the layout of an element: Null when it has no bounding box / screen
\* transform, else its getBBox() and getScreenCTM()
Laid(tbbox, matrix) == Ref([bbox |-> tbbox, matrix |-> matrix])

Page(geom, layout, view) ==
    [geom |-> geom,
     W |-> layout.W, H |-> layout.H,
     rootWidth |-> view.rootWidth,
     docScrollTop |-> view.docScrollTop, docScrollLeft |-> view.docScrollLeft,
     rootScrollTop |-> view.rootScrollTop, rootScrollLeft |-> view.rootScrollLeft]

Geom1 ==
    [rect1 |-> Laid(Rect(Px(10), Px(20), Px(7), Px(4)), Translate(Px(30), Px(40))),
     rect2 |-> Laid(Rect(0, 0, Px(6), Px(3)), Matrix(2, 0, 0, 2, Px(1), Px(50))),
     defs1 |-> Null]

Geom2 ==
    [rect1 |-> Laid(Rect(Px(2), Px(1), Px(4), Px(8)), Matrix(0, 1, -1, 0, Px(90), Px(5))),
     rect2 |-> Laid(Rect(Px(10), Px(20), Px(7), Px(4)), Translate(Px(30), Px(40))),
     defs1 |-> Null]

Layout1 == [W |-> Px(20), H |-> Px(10)]

View1 ==
    [rootWidth |-> [body |-> Px(1000), div1 |-> Px(50)],
     docScrollTop |-> 0, docScrollLeft |-> 0,
     rootScrollTop |-> [body |-> Px(5), div1 |-> 0],
     rootScrollLeft |-> [body |-> 0, div1 |-> Px(3)]]

View2 ==
    [rootWidth |-> [body |-> Px(300), div1 |-> Px(50)],
     docScrollTop |-> Px(12), docScrollLeft |-> Px(8),
     rootScrollTop |-> [body |-> Px(7), div1 |-> Px(7)],
     rootScrollLeft |-> [body |-> Px(9), div1 |-> Px(9)]]


-----------------------------------------------------------------------------
(* Construction: src/index.ts:17-25 *)

Construct(cfg, page) ==
    /\ config = cfg
    /\ direction = Default
    /\ offset = Default
    /\ html = Default
    /\ node = Ref(initNode)
    /\ rootElement = (IF cfg.rootElement # NoEl THEN cfg.rootElement ELSE "body")
    /\ svg = NoEl
    /\ point = Null
    /\ target = NoEl
    /\ dom = [r \in Roots |-> 0]
    /\ env = page
    /\ call = [op |-> "d3tip", err |-> "none"]


-----------------------------------------------------------------------------
(* tip(vis): mount *)

getSVGNode(vis) ==
    CASE vis = "empty"  -> NoEl
      [] vis = "svg"    -> "svg1"
      [] vis = "inner"  -> "svg1"
      [] vis = "orphan" -> NoEl

tip(vis) ==
    LET _svg == getSVGNode(vis)
    IN  /\ call' = [op |-> "mount", err |-> "none"]
        /\ IF _svg = NoEl
             THEN UNCHANGED <<svg, point, node, dom>>
             ELSE /\ svg' = _svg
                  /\ point' = Ref(Point(0, 0))
                  /\ IF node = Null
                       THEN UNCHANGED <<node, dom>>
                       ELSE LET a == appendChild(dom, rootElement, Deref(node))
                            IN  /\ node' = Ref(a.node)
                                /\ dom' = a.dom
        /\ UNCHANGED <<config, direction, offset, html, rootElement,
                       target, env>>

\* tip.rootElement(root) with root given
tip_rootElement(root) ==
    /\ rootElement' = root
    /\ call' = [op |-> "configure", err |-> "none"]
    /\ UNCHANGED <<config, direction, offset, html, node, svg, point,
                   target, dom, env>>

-----------------------------------------------------------------------------
(* tip.show(data, idx).  idx is [element |-> an SVG element] with index 0,   *)
(* or [element |-> NoEl, index |-> a number]; ev is d3.event's target.       *)

Visible(style) ==
    [style EXCEPT !.opacity = 1, !.pointerEvents = "all", !.display = "block"]

\* hide toggling the visibility instead of clearing it
Hidden_toggle(style) ==
    IF style.display = "none"
      THEN [style EXCEPT !.opacity = 1, !.pointerEvents = "all", !.display = "block"]
      ELSE [style EXCEPT !.opacity = 0, !.pointerEvents = "none", !.display = "none"]

Hidden(style) ==
    [style EXCEPT !.opacity = 0, !.pointerEvents = "none", !.display = "none"]

\* show leaving content and visibility for after the coordinates
ShowContent_late(n, content) == n

\* lines 69-73: the content with the pin appended, the node made visible,
\* the elements matching config.blur marked
ShowContent(n, content) ==
    [n EXCEPT !.content = content, !.hasPin = TRUE, !.pinLeft = Null,
              !.style = Visible(@),
              !.blurred = (config.blur # "")]

\* show without the loop that removes the direction classes
ResetClasses_none(n) == n

\* line 75: while (i--) nodel.classed(directions[i], false)
ResetClasses(n) == [n EXCEPT !.classes = @ \ directions]

\* lines 204 and 213: the left style of the last child, when a callback writes it
WritePin(n, coords) ==
    IF coords.pin = Null THEN n ELSE [n EXCEPT !.pinLeft = Ref(CssPx(Deref(coords.pin)))]

\* lines 77-80
Place(n, dir, coords, poffset, scrollTop, scrollLeft) ==
    [n EXCEPT !.classes = @ \cup {dir},
              !.style.top = Ref(CssPx(coords.top + At(poffset, 0) + scrollTop)),
              !.style.left = Ref(CssPx(coords.left + At(poffset, 1) + scrollLeft))]

tip_show(data, idx, ev) ==
    LET isElement == idx.element # NoEl
        target1 == IF isElement THEN idx.element ELSE target
        args == IF isElement THEN <<data, 0>> ELSE <<data, idx.index>>
        content == applyHtml(html, args)
        poffset == applyOffset(offset, args)
        dir == applyDirection(direction, args)
        g == getNodeEl
        scrollTop == IF env.docScrollTop # 0 THEN env.docScrollTop
                     ELSE env.rootScrollTop[rootElement]
        scrollLeft == IF env.docScrollLeft # 0 THEN env.docScrollLeft
                      ELSE env.rootScrollLeft[rootElement]
        n1 == ResetClasses(ShowContent(g.node, content))
        sb == getScreenBBox(target1, ev, point, env.geom)
        W == env.W
        H == env.H
        R == env.rootWidth[rootElement]
        base == [op |-> "show", explicit |-> isElement,
                 element |-> idx.element, args |-> args,
                 made |-> (node = Null),
                 content |-> content, poffset |-> poffset, dir |-> dir,
                 scrollTop |-> scrollTop, scrollLeft |-> scrollLeft,
                 W |-> W, H |-> H, R |-> R, targetel |-> sb.targetel]
    IN  /\ target' = target1
        /\ dom' = g.dom
        /\ IF sb.err # "none"
             THEN /\ node' = Ref(n1)
                  /\ call' = base @@ [err |-> sb.err]
                  /\ UNCHANGED point
             ELSE LET coords == direction_callbacks(dir, sb.bbox, W, H, R)
                  IN  /\ node' = Ref(Place(WritePin(n1, coords), dir, coords,
                                           poffset, scrollTop, scrollLeft))
                      /\ point' = sb.point
                      /\ call' = base @@ [err |-> "none", scratch |-> point,
                                          tbbox |-> sb.tbbox, matrix |-> sb.matrix,
                                          bbox |-> sb.bbox, coords |-> coords]
        /\ UNCHANGED <<config, direction, offset, html, rootElement, svg, env>>

\* tip.hide()
tip_hide ==
    LET g == getNodeEl
    IN  /\ node' = Ref([g.node EXCEPT !.style = Hidden(@)])
        /\ dom' = g.dom
        /\ call' = [op |-> "hide", err |-> "none"]
        /\ UNCHANGED <<config, direction, offset, html, rootElement, svg, point,
                       target, env>>

-----------------------------------------------------------------------------
(* tip.attr and tip.style: pass-through to the node.  The model follows the   *)
(* class attribute and the styles the positioner itself writes.               *)

AttrArgs == { [n |-> "class", v |-> Null],
              [n |-> "class", v |-> Ref({"d3-tip", "n", "se"})] }

StyleArgs == { [n |-> "left", v |-> Null],
               [n |-> "left", v |-> Ref(CssPx(Px(7)))] }

tip_attr(a) ==
    LET g == getNodeEl
    IN  /\ node' = Ref(IF a.v = Null THEN g.node
                       ELSE [g.node EXCEPT !.classes = Deref(a.v)])
        /\ dom' = g.dom
        /\ call' = [op |-> "attr", err |-> "none"]
        /\ UNCHANGED <<config, direction, offset, html, rootElement, svg, point,
                       target, env>>

setStyle(n, a) ==
    CASE a.n = "left"    -> [n EXCEPT !.style.left = a.v]
      [] a.n = "display" -> [n EXCEPT !.style.display = Deref(a.v)]

tip_style(a) ==
    LET g == getNodeEl
    IN  /\ node' = Ref(IF a.v = Null THEN g.node ELSE setStyle(g.node, a))
        /\ dom' = g.dom
        /\ call' = [op |-> "style", err |-> "none"]
        /\ UNCHANGED <<config, direction, offset, html, rootElement, svg, point,
                       target, env>>

-----------------------------------------------------------------------------
(* The setters of the three configurable functions, called with a value     *)

\* what a setter is called with: a function of the caller, or a plain value
FunctionArg == [typeof |-> "function"]
ValueArg(v) == [typeof |-> "value", v |-> v]

\* typeof v === "function" ? v : () => v
Wrap(v) == IF v.typeof = "function" THEN Function ELSE Constant(v.v)

OffsetValues == { <<Px(3), Px(11)>> }
HtmlValues == { "<p>tip</p>" }

tip_direction(v) ==
    /\ direction' = Wrap(v)
    /\ call' = [op |-> "configure", err |-> "none"]
    /\ UNCHANGED <<config, offset, html, node, rootElement, svg, point,
                   target, dom, env>>

tip_offset(v) ==
    /\ offset' = Wrap(v)
    /\ call' = [op |-> "configure", err |-> "none"]
    /\ UNCHANGED <<config, direction, html, node, rootElement, svg, point,
                   target, dom, env>>

tip_html(v) ==
    /\ html' = Wrap(v)
    /\ call' = [op |-> "configure", err |-> "none"]
    /\ UNCHANGED <<config, direction, offset, node, rootElement, svg, point,
                   target, dom, env>>

-----------------------------------------------------------------------------
(* tip.destroy()                                                             *)

tip_destroy ==
    /\ IF node # Null
         THEN /\ dom' = remove(dom, Deref(node)).dom
              /\ node' = Null
         ELSE UNCHANGED <<node, dom>>
    /\ call' = [op |-> "destroy", err |-> "none"]
    /\ UNCHANGED <<config, direction, offset, html, rootElement, svg, point,
                   target, env>>

-----------------------------------------------------------------------------
(* The page changes between calls: shapes move, the tooltip's content lays   *)
(* out differently, the viewport scrolls or resizes.                         *)

Environment(pages) ==
    /\ env' \in pages \ {env}
    /\ call' = [op |-> "page", err |-> "none"]
    /\ UNCHANGED tipVars

-----------------------------------------------------------------------------

ShowArgs(elements) ==
    { [element |-> el, index |-> 0] : el \in elements }
      \cup { [element |-> NoEl, index |-> i] : i \in Index }

ValueArgs(values) == { ValueArg(v) : v \in values }

-----------------------------------------------------------------------------
(* Spec: the life cycle of one positioner on one page - every operation,     *)
(* with every kind of anchor and of mount argument.                          *)

Init == Construct([blur |-> ".chart", rootElement |-> NoEl], Page(Geom1, Layout1, View1))

Next ==
    \/ \E vis \in Selections : tip(vis)
    \/ \E root \in Roots : tip_rootElement(root)
    \/ \E idx \in ShowArgs({"rect1", "defs1"}), ev \in {"rect1", "defs1", NoEl} :
          tip_show("d1", idx, ev)
    \/ tip_hide
    \/ \E a \in AttrArgs : tip_attr(a)
    \/ \E a \in StyleArgs : tip_style(a)
    \/ tip_direction(FunctionArg)
    \/ tip_destroy

Spec == Init /\ [][Next]_vars

-----------------------------------------------------------------------------
(* SpecGeo: the geometry of show over many pages - the anchor rect1 with     *)
(* every bounding box and transform matrix below, the tooltip in every size, *)
(* narrow and wide containers - with a mounted or unmounted positioner and   *)
(* every direction.                                                          *)

GeoRects ==
    { Rect(x, Px(1), width, height) :
        x \in {0, Px(3)}, width \in {Px(4), Px(7)}, height \in {Px(5)} }

GeoMatrices ==
    { Translate(Px(10), Px(20)),
      Matrix(2, 0, 0, 3, Px(5), Px(1)),
      Matrix(0, 1, -1, 0, Px(40), 0),
      Matrix(1, 2, 3, 1, -Px(2), Px(6)) }

GeoLayouts == { [W |-> W, H |-> H] : W \in {Px(20), Px(41), Px(90)}, H \in {Px(7)} }

GeoViews ==
    { [rootWidth |-> [body |-> R, div1 |-> R],
       docScrollTop |-> 0, docScrollLeft |-> Px(2),
       rootScrollTop |-> [body |-> Px(1), div1 |-> Px(1)],
       rootScrollLeft |-> [body |-> 0, div1 |-> 0]] : R \in {Px(30), Px(1000)} }

GeoPages ==
    { Page([rect1 |-> Laid(r, m),
            rect2 |-> Laid(Rect(Px(50), Px(60), Px(9), Px(3)), Identity),
            defs1 |-> Null], l, v) :
        r \in GeoRects, m \in GeoMatrices, l \in GeoLayouts, v \in GeoViews }

InitGeo ==
    \E page \in GeoPages : Construct([blur |-> "", rootElement |-> NoEl], page)

NextGeo ==
    \/ tip("svg")
    \/ \E v \in ValueArgs(directions) : tip_direction(v)
    \/ \E el \in Shapes : tip_show("d1", [element |-> el, index |-> 0], NoEl)

SpecGeo == InitGeo /\ [][NextGeo]_vars

-----------------------------------------------------------------------------
(* SpecFlow: what repeated shows write - with configured offsets and         *)
(* contents, on a page that scrolls, resizes and moves its shapes between    *)
(* the calls.                                                                *)

FlowPages == { Page(Geom1, Layout1, View1), Page(Geom2, Layout1, View2) }

InitFlow ==
    \E blur \in {"", ".chart"}, page \in FlowPages :
       Construct([blur |-> blur, rootElement |-> "div1"], page)

NextFlow ==
    \/ tip("svg")
    \/ \E data \in Data, idx \in ShowArgs({"rect1"}), ev \in {"rect2"} :
          tip_show(data, idx, ev)
    \/ tip_hide
    \/ tip_direction(FunctionArg)
    \/ \E v \in ValueArgs(OffsetValues) : tip_offset(v)
    \/ tip_html(FunctionArg)
    \/ Environment(FlowPages)

SpecFlow == InitFlow /\ [][NextFlow]_vars

-----------------------------------------------------------------------------
(* Properties.  ShowDone: the last call was a show that returned.            *)

ShowDone == call.op = "show" /\ call.err = "none"

\* the tooltip node after a call that left one
TheNode == Deref(node)

-----------------------------------------------------------------------------
\* The reference table of the direction coordinates
TableTop(d, b, H) ==
    CASE d = "n"  -> b.n.y - H
      [] d = "s"  -> b.s.y
      [] d = "e"  -> b.e.y - Half(H)
      [] d = "w"  -> b.w.y - Half(H)
      [] d = "ne" -> b.ne.y - H
      [] d = "nw" -> b.nw.y - H
      [] d = "se" -> b.se.y
      [] d = "sw" -> b.sw.y

TableLeft(d, b, W) ==
    CASE d = "n"  -> b.n.x - Half(W)
      [] d = "s"  -> b.s.x - Half(W)
      [] d = "e"  -> b.e.x
      [] d = "w"  -> b.w.x - W
      [] d = "ne" -> b.ne.x
      [] d = "nw" -> b.nw.x - W
      [] d = "se" -> b.e.x
      [] d = "sw" -> b.sw.x - W

\* the naive north placement overflows neither side of the root element
NoNorthOverflow ==
    /\ call.bbox.n.x + Half(call.W) <= call.R
    /\ call.bbox.n.x - Half(call.W) >= 0

\* C1: for each of the 8 directions, any anchor bbox and any tooltip size,
\* the (top, left) pair show looks up is the one of the reference table
\* (for n: when there is no north overflow); the left of se is the x of the
\* e point.
C1_DirectionTable ==
    (ShowDone /\ (call.dir = "n" => NoNorthOverflow))
       => /\ call.dir \in directions
          /\ call.coords.top = TableTop(call.dir, call.bbox, call.H)
          /\ call.coords.left = TableLeft(call.dir, call.bbox, call.W)

\* a show to the south-east of an anchor whose e and se points differ in x
C1_Witness ==
    /\ ShowDone
    /\ call.dir = "se"
    /\ call.bbox.e.x # call.bbox.se.x
    /\ call.coords.left = call.bbox.e.x

-----------------------------------------------------------------------------
\* C2 as stated: for direction n, whenever the naive left edge n.x - W/2 is
\* negative, whatever W and R are, the computed left is n.x - W/2 + diff = 0
\* with diff = W/2 - n.x, and the pin's left style is W/2 - diff = n.x.
C2_LeftDeficitAnyWidth ==
    (ShowDone /\ call.dir = "n" /\ call.bbox.n.x - Half(call.W) < 0)
       => LET diff == Half(call.W) - call.bbox.n.x
          IN  /\ call.coords.left = call.bbox.n.x - Half(call.W) + diff
              /\ call.coords.left = 0
              /\ TheNode.pinLeft = Ref(CssPx(Half(call.W) - diff))
              /\ TheNode.pinLeft = Ref(CssPx(call.bbox.n.x))

\* C2, amended: the same whenever the naive left edge is negative and the
\* naive right edge n.x + W/2 does not exceed the root element's width R.
C2_LeftDeficit ==
    (/\ ShowDone
     /\ call.dir = "n"
     /\ call.bbox.n.x - Half(call.W) < 0
     /\ call.bbox.n.x + Half(call.W) <= call.R)
       => LET diff == Half(call.W) - call.bbox.n.x
          IN  /\ call.coords.left = call.bbox.n.x - Half(call.W) + diff
              /\ call.coords.left = 0
              /\ TheNode.pinLeft = Ref(CssPx(Half(call.W) - diff))
              /\ TheNode.pinLeft = Ref(CssPx(call.bbox.n.x))

\* a north show clamped at the left edge only
C2_Witness ==
    /\ ShowDone
    /\ call.dir = "n"
    /\ call.bbox.n.x - Half(call.W) < 0
    /\ call.bbox.n.x + Half(call.W) <= call.R
    /\ call.coords.left = 0
    /\ TheNode.pinLeft # Null

-----------------------------------------------------------------------------
\* C3: for direction n, whenever n.x + W/2 > R, the computed left is
\* n.x - W/2 - diff with diff = n.x + W/2 - R, which puts the right edge at R,
\* and the pin (the last child) gets the left style W/2 + diff; for the other
\* directions the pin's left style is not written.
C3_RightOverflow ==
    /\ (ShowDone /\ call.dir = "n" /\ call.bbox.n.x + Half(call.W) > call.R)
          => LET diff == call.bbox.n.x + Half(call.W) - call.R
             IN  /\ call.coords.left = call.bbox.n.x - Half(call.W) - diff
                 /\ call.coords.left + call.W = call.R
                 /\ TheNode.hasPin
                 /\ TheNode.pinLeft = Ref(CssPx(Half(call.W) + diff))
    /\ (ShowDone /\ call.dir # "n") => (TheNode.hasPin /\ TheNode.pinLeft = Null)

\* a north show that overflows the right edge only
C3_Witness ==
    /\ ShowDone
    /\ call.dir = "n"
    /\ call.bbox.n.x + Half(call.W) > call.R
    /\ call.bbox.n.x - Half(call.W) >= 0
    /\ call.coords.left + call.W = call.R

-----------------------------------------------------------------------------
\* projecting a fresh local point (x, y) through M
Project(M, x, y) == matrixTransform(Point(x, y), M)

FreshBBox(t, M) ==
    [nw |-> Project(M, t.x, t.y),
     ne |-> Project(M, t.x + t.width, t.y),
     se |-> Project(M, t.x + t.width, t.y + t.height),
     sw |-> Project(M, t.x, t.y + t.height),
     w  |-> Project(M, t.x, t.y + Half(t.height)),
     e  |-> Project(M, t.x + t.width, t.y + Half(t.height)),
     n  |-> Project(M, t.x + Half(t.width), t.y),
     s  |-> Project(M, t.x + Half(t.width), t.y + t.height)]

\* C9: the 8 points getScreenBBox computes by mutating and transforming its
\* one scratch point are the projections of fresh local points through the
\* matrix, taken from the bbox and matrix the anchor has at the call, whatever
\* the scratch point held before.
C9_FreshProjection ==
    ShowDone
       => /\ env.geom[call.targetel] = Laid(call.tbbox, call.matrix)
          /\ call.bbox = FreshBBox(call.tbbox, call.matrix)

\* a show through a matrix that mixes x and y, with the scratch point left
\* elsewhere by an earlier show
C9_Witness ==
    /\ ShowDone
    /\ call.matrix.b # 0
    /\ call.matrix.c # 0
    /\ call.scratch # Ref(Point(0, 0))
    /\ call.scratch # Ref(Point(call.tbbox.x, call.tbbox.y))

-----------------------------------------------------------------------------
\* C5: with the configured offset an [x, y] pair, x horizontal and y vertical,
\* a completed show writes top = table top + y + vertical scroll and
\* left = table left + x + horizontal scroll, and leaves the node visible with
\* the call's content and direction class, whatever an earlier show left.
C5_OffsetAxes ==
    ShowDone
       => LET x == At(call.poffset, 0)
              y == At(call.poffset, 1)
          IN  /\ TheNode.style.top = Ref(CssPx(call.coords.top + y + call.scrollTop))
              /\ TheNode.style.left = Ref(CssPx(call.coords.left + x + call.scrollLeft))
              /\ TheNode.content = call.content
              /\ TheNode.style.opacity = 1
              /\ TheNode.style.pointerEvents = "all"
              /\ TheNode.style.display = "block"
              /\ TheNode.classes \cap directions = {call.dir}

-----------------------------------------------------------------------------
\* the anchor the last show resolved has a bounding box and a screen transform
Rendered == call.targetel # NoEl /\ env.geom[call.targetel] # Null

IsVisible(n) ==
    n.style.opacity = 1 /\ n.style.pointerEvents = "all" /\ n.style.display = "block"

IsHidden(n) ==
    n.style.opacity = 0 /\ n.style.pointerEvents = "none" /\ n.style.display = "none"

\* C4: after every completed show, whatever was shown, hidden or set before,
\* the node carries exactly one direction class: the one the configured
\* direction function returns for the call's arguments.
C4_OneDirectionClass ==
    ShowDone
       => /\ Cardinality(TheNode.classes \cap directions) = 1
          /\ TheNode.classes \cap directions = {applyDirection(direction, call.args)}

\* a completed show on a node whose class attribute held two other
\* direction classes
C4_Witness ==
    /\ ShowDone
    /\ TheNode.classes = {"d3-tip", "e"}

-----------------------------------------------------------------------------
-----------------------------------------------------------------------------
\* C7: hide never fails and leaves the node hidden (opacity 0, pointer-events
\* none, display none); content, top, left and direction classes of an
\* existing node stay as they were; a hide that follows a hide changes nothing.
C7_HideIdempotent ==
    [][call'.op = "hide"
         => /\ call'.err = "none"
            /\ node' # Null
            /\ IsHidden(Deref(node'))
            /\ node # Null
                 => /\ Deref(node').content = Deref(node).content
                    /\ Deref(node').style.top = Deref(node).style.top
                    /\ Deref(node').style.left = Deref(node).style.left
                    /\ Deref(node').classes = Deref(node).classes
                    /\ Deref(node').pinLeft = Deref(node).pinLeft
            /\ call.op = "hide" => (node' = node /\ dom' = dom)]_vars

\* a hide of a tooltip that a show had placed
C7_Witness ==
    /\ call.op = "hide"
    /\ IsHidden(TheNode)
    /\ TheNode.content # ""
    /\ TheNode.classes \cap directions # {}
    /\ TheNode.style.left # Null

-----------------------------------------------------------------------------
-----------------------------------------------------------------------------
\* a show that failed on an anchor without bounding box or screen transform
GeometryError == call.op = "show" /\ call.err = "geometry"

\* C10 as stated: a show that fails with a geometry error leaves the node as
\* it was before the call.
C10_FailedShowChangesNothing ==
    [][GeometryError' => node' = node]_vars

\* C10, amended: a show that fails with a geometry error leaves the top and
\* left of an existing node as they were, but has already replaced the
\* content, made the node visible and removed every direction class.
C10_FailedShowKeepsPosition ==
    [][GeometryError'
         => /\ node' # Null
            /\ IsVisible(Deref(node'))
            /\ Deref(node').content = call'.content
            /\ Deref(node').classes \cap directions = {}
            /\ node # Null
                 => /\ Deref(node').style.top = Deref(node).style.top
                    /\ Deref(node').style.left = Deref(node).style.left]_vars

\* a failed show on a tooltip that an earlier show had placed
C10_Witness ==
    /\ GeometryError
    /\ IsVisible(TheNode)
    /\ TheNode.classes \cap directions = {}
    /\ TheNode.style.left # Null

-----------------------------------------------------------------------------
\* the containers holding nothing / exactly one tooltip node, in root r
NoneAttached == [r \in Roots |-> 0]

OneAttached(root) == [r \in Roots |-> IF r = root THEN 1 ELSE 0]

\* C11: after every call at most one tooltip node of the positioner is in the
\* DOM; after destroy none is and the node slot is empty; with the slot empty,
\* mount and the setters leave it empty, and show, hide, attr or style make
\* exactly one node and append it to the root element configured then.
C11_OneNodeAttached ==
    [][/\ dom' \in {NoneAttached} \cup {OneAttached(r) : r \in Roots}
       /\ node' = Null => dom' = NoneAttached
       /\ node' # Null =>
             dom' = (IF Deref(node').parent = NoEl THEN NoneAttached
                     ELSE OneAttached(Deref(node').parent))
       /\ call'.op = "destroy" => (node' = Null /\ dom' = NoneAttached)
       /\ (node = Null /\ call'.op \in {"mount", "configure"})
             => (node' = Null /\ dom' = NoneAttached)
       /\ (node = Null /\ call'.op \in {"show", "hide", "attr", "style"})
             => /\ node' # Null
                /\ Deref(node').parent = rootElement'
                /\ dom' = OneAttached(rootElement')]_vars

\* a node made by hide, attr or style on a positioner never mounted: it is in
\* the container configured after construction, where only getNodeEl can
\* have put it
C11_Witness ==
    /\ call.op \in {"hide", "attr", "style"}
    /\ svg = NoEl
    /\ node # Null
    /\ TheNode.parent = "div1"
    /\ dom = OneAttached("div1")

-----------------------------------------------------------------------------
\* C12: a show given an element makes it the target and calls the html,
\* offset and direction functions with index 0; a show given an index, once a
\* target is set, keeps the target and anchors on it whatever the ambient
\* event's target is; no other call changes the target.
C12_StickyTarget ==
    [][/\ (call'.op = "show" /\ call'.explicit)
            => /\ target' = call'.element
               /\ call'.targetel = call'.element
               /\ At(call'.args, 1) = 0
               /\ call'.content = applyHtml(html, <<At(call'.args, 0), 0>>)
               /\ call'.poffset = applyOffset(offset, <<At(call'.args, 0), 0>>)
               /\ call'.dir = applyDirection(direction, <<At(call'.args, 0), 0>>)
       /\ (call'.op = "show" /\ ~call'.explicit /\ target # NoEl)
            => /\ target' = target
               /\ call'.targetel = target
       /\ call'.op # "show" => target' = target]_vars

\* a completed show with index 1 that made its node anew (a destroy came
\* before it) and anchored on the target an earlier show had set
C12_Witness ==
    /\ ShowDone
    /\ ~call.explicit
    /\ At(call.args, 1) = 1
    /\ call.made
    /\ target = "rect1"
    /\ call.targetel = "rect1"
    /\ call.dir = "e"

=============================================================================
